---- MODULE Spec2Model ----
(***************************************************************************)
(* checkExtrinsic.js / findAsDerivative.js: the asDerivative block scanner. *)
(*                                                                         *)
(* JavaScript values are modelled by records of one shape per sort, so     *)
(* that the duck-typing the code does (typeof x.toArray, Array.isArray,    *)
(* x && x.method, x.toNumber()) is decided by a tag:                       *)
(*   argument value  [kind, num, items]                                    *)
(*       kind "int"    a codec integer (has toNumber, toHuman), num        *)
(*       kind "vec"    a codec Vec (has toArray, toHuman), items           *)
(*       kind "array"  a plain JS array, items                             *)
(*       kind "call"   a call object, items = <<the call>>                 *)
(*       kind "scalar" a JS primitive, kind "object" a plain {},           *)
(*       kind "null"   null; an absent argument reads as undefined         *)
(*   call node       [tag, section, method, args]                          *)
(*       tag "wrapped" an object whose .method is an object carrying       *)
(*                     .section and .method (the shape of an extrinsic)    *)
(*       tag "bare"    an object carrying .section, .method (a string) and *)
(*                     .args itself (the shape findAsDerivative.js reads)  *)
(*       tag "null"    null, or anything without a truthy .method          *)
(***************************************************************************)
EXTENDS Integers, Sequences, FiniteSets, TLC

\* ---------------------------------------------------------------- bounds
\* Number of blocks of the scanned range (END_BLOCK - START_BLOCK + 1).
NumBlocks == 3
\* Largest number of nodes of a call tree handed to the matcher alone.
MaxNodes == 3
\* Indices range over MaxWrap windows of 256 on either side of 0..255.
MaxWrap == 2

\* ------------------------------------------------------- program constants
\* BATCH_SIZE is read from the environment (default '20'); the scan is run
\* with BATCH_SIZE=2 so that a range of NumBlocks blocks has several batches.
BATCH_SIZE == 2
RPC_RETRY_LIMIT == 3
RPC_RETRY_DELAY == 500
\* START_BLOCK of the environment.
START_BLOCK == 100

Undefined == "undefined"

\* stringToU8a('modlpy/utilisuba')
DERIVATION_PREFIX == <<109, 111, 100, 108, 112, 121, 47, 117, 116, 105, 108, 105, 115, 117, 98, 97>>

\* ------------------------------------------------------------- JS values
IntVal(n) == [kind |-> "int", num |-> n, items |-> <<>>]
VecVal(s) == [kind |-> "vec", num |-> 0, items |-> s]
ArrayVal(s) == [kind |-> "array", num |-> 0, items |-> s]
CallVal(c) == [kind |-> "call", num |-> 0, items |-> <<c>>]
NullVal == [kind |-> "null", num |-> 0, items |-> <<>>]
ScalarVal == [kind |-> "scalar", num |-> 0, items |-> <<>>]
ObjectVal == [kind |-> "object", num |-> 0, items |-> <<>>]
UndefinedVal == [kind |-> "undefined", num |-> 0, items |-> <<>>]

Wrapped(s, m, a) == [tag |-> "wrapped", section |-> s, method |-> m, args |-> a]
Bare(s, m, a) == [tag |-> "bare", section |-> s, method |-> m, args |-> a]
NullNode == [tag |-> "null", section |-> Undefined, method |-> Undefined, args |-> <<>>]

\* callArgs[i] of JavaScript (0-based): undefined past the end.
ArgAt(callArgs, i) == IF i + 1 <= Len(callArgs) THEN callArgs[i + 1] ELSE UndefinedVal

Nullish(v) == v.kind \in {"null", "undefined"}

\* node.method as JavaScript reads it: the method object of a wrapped node;
\* a bare node's .method is a string, whose .section and .method are
\* undefined.
MethodOf(node) ==
  IF node.tag = "wrapped"
    THEN [section |-> node.section, method |-> node.method]
    ELSE [section |-> Undefined, method |-> Undefined]

\* `nested && nested.method`
HasMethod(node) == node.tag \in {"wrapped", "bare"}

\* ------------------------------------------------------------- accounts
\* An address string is the SS58 text of the account's bytes; the 32 bytes
\* are abstracted to a short byte sequence.
SS58(bytes) == [ss58 |-> bytes]
\* api.registry.createType('AccountId32', x).toU8a()
AccountBytes(addr) == addr.ss58

Signers == {SS58(<<1>>), SS58(<<2>>)}

\* n & m on non-negative integers, bit by bit.
RECURSIVE AndBits(_, _, _)
AndBits(a, b, bits) ==
  IF bits = 0 THEN 0
  ELSE ((a % 2) * (b % 2)) + 2 * AndBits(a \div 2, b \div 2, bits - 1)

\* derivativeIndex & 0xff, on a 32-bit two's complement integer.
IndexByteBroken(n) == n
IndexByte(n) ==
  IF n >= 0 THEN AndBits(n, 255, 8) ELSE 255 - AndBits((-n) - 1, 255, 8)

\* blake2AsU8a(raw, 256): the digest is kept symbolic, as the tagged
\* preimage (no two modelled buffers collide).
Blake2AsU8a(raw) == <<256>> \o raw

DeriveAccountCorrect(signer, derivativeIndex) ==
  LET accountBytes == AccountBytes(signer)
      indexByte == <<IndexByte(derivativeIndex)>>
      raw == DERIVATION_PREFIX \o accountBytes \o indexByte
      hash == Blake2AsU8a(raw)
  IN  SS58(hash)

\* findAsDerivative.js derives the account of index i inline.
CheckAccountDerive(account, i) ==
  LET prefix == DERIVATION_PREFIX
      accountBytes == AccountBytes(account)
      indexByte == <<IndexByte(i)>>
      raw == prefix \o accountBytes \o indexByte
      hash == Blake2AsU8a(raw)
  IN  SS58(hash)

\* ------------------------------------------------------- details stream
Tok(c) == [ch |-> c, json |-> <<>>]
\* JSON.stringify(detail): the text of one object, kept as one token.
JsonTok(d) == [ch |-> "json", json |-> <<d>>]

\* a.toHuman() exists on codec values only.
HasToHuman(v) == v.kind \in {"int", "vec", "call"}
ToHuman(v) == [human |-> v.kind, num |-> v.num]

\* Evaluating the object literal of the record throws a TypeError on
\* innerCall.method.section (innerCall null, undefined, or without .method)
\* or inside innerCall.args.map(a => a.toHuman()).
InnerCallThrows(v) ==
  \/ v.kind # "call"
  \/ ~HasMethod(v.items[1])
  \/ \E k \in 1..Len(v.items[1].args) : ~HasToHuman(v.items[1].args[k])

\* The writeDetail closure of main: a comma before every record but the
\* first, then a line break and the record's JSON text.
WriteDetailNoSeparator(m, detail) ==
  [m EXCEPT !.ws = m.ws \o <<Tok("\n"), JsonTok(detail)>>, !.firstDetail = FALSE]
WriteDetail(m, detail) ==
  [m EXCEPT !.ws = m.ws \o (IF m.firstDetail THEN <<>> ELSE <<Tok(",")>>)
                        \o <<Tok("\n"), JsonTok(detail)>>,
            !.firstDetail = FALSE]

\* --------------------------------------------------------------- matcher
\* m = [total, unique, ws, firstDetail, thrown]: counters, the stream and
\* whether an exception is propagating.
Throw(m) == [m EXCEPT !.thrown = TRUE]

\* Lines 66-89: the asDerivative branch.
MatchAsDerivativeNoCount(callArgs, blockNumber, extrinsicIndex, signer, m) ==
  IF ArgAt(callArgs, 0).kind # "int" THEN Throw(m)
  ELSE
    LET derivativeIndex == ArgAt(callArgs, 0).num
        innerCall == ArgAt(callArgs, 1)
        derivedAccount == DeriveAccountCorrect(signer, derivativeIndex)
    IN  IF InnerCallThrows(innerCall) THEN Throw(m)
        ELSE WriteDetail(m,
               [block |-> blockNumber,
                extrinsicIndex |-> extrinsicIndex,
                signer |-> signer,
                derivativeIndex |-> derivativeIndex,
                derivedAccount |-> derivedAccount,
                innerCall |-> MethodOf(innerCall.items[1]),
                innerCallArgs |-> [k \in 1..Len(innerCall.items[1].args) |->
                                     ToHuman(innerCall.items[1].args[k])]])
RECURSIVE CheckAsDerivative(_, _, _, _, _, _)
\* A matcher without the return of line 88: it walks on into the inner call.
MatchAsDerivativeDescends(callArgs, blockNumber, extrinsicIndex, signer, m) ==
  IF ArgAt(callArgs, 0).kind # "int" THEN Throw(m)
  ELSE
    LET derivativeIndex == ArgAt(callArgs, 0).num
        innerCall == ArgAt(callArgs, 1)
        derivedAccount == DeriveAccountCorrect(signer, derivativeIndex)
        m1 == [m EXCEPT !.unique = m.unique \cup {derivedAccount},
                        !.total = m.total + 1]
    IN  IF InnerCallThrows(innerCall) THEN Throw(m1)
        ELSE CheckAsDerivative(MethodOf(innerCall.items[1]), innerCall.items[1].args,
               blockNumber, extrinsicIndex, signer,
               WriteDetail(m1,
                 [block |-> blockNumber,
                  extrinsicIndex |-> extrinsicIndex,
                  signer |-> signer,
                  derivativeIndex |-> derivativeIndex,
                  derivedAccount |-> derivedAccount,
                  innerCall |-> MethodOf(innerCall.items[1]),
                  innerCallArgs |-> [k \in 1..Len(innerCall.items[1].args) |->
                                       ToHuman(innerCall.items[1].args[k])]]))
MatchAsDerivative(callArgs, blockNumber, extrinsicIndex, signer, m) ==
  \* callArgs[0].toNumber() throws unless the argument is a codec integer
  IF ArgAt(callArgs, 0).kind # "int" THEN Throw(m)
  ELSE
    LET derivativeIndex == ArgAt(callArgs, 0).num
        innerCall == ArgAt(callArgs, 1)
        derivedAccount == DeriveAccountCorrect(signer, derivativeIndex)
        m1 == [m EXCEPT !.unique = m.unique \cup {derivedAccount},
                        !.total = m.total + 1]
    IN  IF InnerCallThrows(innerCall) THEN Throw(m1)
        ELSE WriteDetail(m1,
               [block |-> blockNumber,
                extrinsicIndex |-> extrinsicIndex,
                signer |-> signer,
                derivativeIndex |-> derivativeIndex,
                derivedAccount |-> derivedAccount,
                innerCall |-> MethodOf(innerCall.items[1]),
                innerCallArgs |-> [k \in 1..Len(innerCall.items[1].args) |->
                                     ToHuman(innerCall.items[1].args[k])]])

\* Lines 96-101: callsArr of a batch; typeof callsVec.toArray throws on
\* null and undefined (BatchArgThrows), anything else without toArray that
\* is no array gives [].
BatchArgThrows(callsVec) == Nullish(callsVec)
CallsArr(callsVec) ==
  IF callsVec.kind \in {"vec", "array"} THEN callsVec.items ELSE <<>>

IsBatchMethod(method) == method \in {"batch", "batchAll"}

\* Line 66: the test for the tracked call.
IsDerivativeCallAnySection(callMethod) == callMethod.method = "asDerivative"
IsDerivativeCall(callMethod) ==
  callMethod.section = "utility" /\ callMethod.method = "asDerivative"

RECURSIVE ForEachNested(_, _, _, _, _, _)

\* callsArr.forEach from entry k on; an exception ends the loop.
ForEachNested(callsArr, k, blockNumber, extrinsicIndex, signer, m) ==
  IF k > Len(callsArr) \/ m.thrown THEN m
  ELSE
    LET nested == callsArr[k]
        m1 == IF HasMethod(nested)
                THEN CheckAsDerivative(MethodOf(nested), nested.args,
                                       blockNumber, extrinsicIndex, signer, m)
                ELSE m
    IN  ForEachNested(callsArr, k + 1, blockNumber, extrinsicIndex, signer, m1)

CheckAsDerivative(callMethod, callArgs, blockNumber, extrinsicIndex, signer, m) ==
  IF IsDerivativeCall(callMethod)
    THEN MatchAsDerivative(callArgs, blockNumber, extrinsicIndex, signer, m)
  ELSE IF callMethod.section = "utility" /\ IsBatchMethod(callMethod.method)
    THEN IF BatchArgThrows(ArgAt(callArgs, 0)) THEN Throw(m)
         ELSE ForEachNested(CallsArr(ArgAt(callArgs, 0)), 1,
                            blockNumber, extrinsicIndex, signer, m)
  ELSE m

\* ------------------------------------------------------------ extrinsics
\* An extrinsic: ex.signer (absent on an unsigned one) and ex.method, the
\* top-level call; ex.method.args is the argument array.
Extrinsic(signed, signer, call) == [signed |-> signed, signer |-> signer, call |-> call]

\* The forEach callback of lines 298-325 (the debug tallies left out).
ProcessExtrinsic(ex, idx, blockNumber, m) ==
  IF ~ex.signed THEN m
  ELSE IF ex.call.section # "utility" THEN m
  ELSE CheckAsDerivative(MethodOf(ex.call), ex.call.args, blockNumber, idx, ex.signer, m)

RECURSIVE ForEachExtrinsic(_, _, _, _)
\* extrinsics.forEach from position k (1-based; idx = k - 1).
ForEachExtrinsic(extrinsics, k, blockNumber, m) ==
  IF k > Len(extrinsics) \/ m.thrown THEN m
  ELSE ForEachExtrinsic(extrinsics, k + 1, blockNumber,
                        ProcessExtrinsic(extrinsics[k], k - 1, blockNumber, m))

RECURSIVE ProcessBlocks(_, _, _, _)
\* Lines 294-326: for (i = 0; i < blocks.length; i++), with i + 1 = k.
ProcessBlocks(blocks, batch, k, m) ==
  IF k > Len(blocks) \/ m.thrown THEN m
  ELSE ProcessBlocks(blocks, batch, k + 1,
                     ForEachExtrinsic(blocks[k], 1, batch[k], m))

\* ---------------------------------------------------------------- retry
\* Loop test of retry: another attempt is made while i < limit.
RetryExhaustedLate(i) == i > RPC_RETRY_LIMIT
RetryExhausted(i) == i >= RPC_RETRY_LIMIT

\* setTimeout delay after the failure of attempt i (0-based).
RetryDelay(i) == RPC_RETRY_DELAY * (i + 1)

\* -------------------------------------------------------------- batches
RECURSIVE ChunkFrom(_, _, _)
ChunkFrom(arr, size, i) ==
  IF i >= Len(arr) THEN <<>>
  ELSE <<SubSeq(arr, i + 1, IF i + size <= Len(arr) THEN i + size ELSE Len(arr))>>
         \o ChunkFrom(arr, size, i + size)
ChunkArray(arr, size) == ChunkFrom(arr, size, 0)

END_BLOCK == START_BLOCK + NumBlocks - 1
AllBlocks == [i \in 1..(END_BLOCK - START_BLOCK + 1) |-> START_BLOCK + (i - 1)]
Batches == ChunkArray(AllBlocks, BATCH_SIZE)

\* ---------------------------------------------------------- chain inputs
Alice == SS58(<<1>>)
Bob == SS58(<<2>>)
Remark == Wrapped("system", "remark", <<IntVal(0)>>)
AsDerivative(i) == Wrapped("utility", "asDerivative", <<IntVal(i), CallVal(Remark)>>)

\* The extrinsics a block of the scanned chain may hold.
ExDirect == Extrinsic(TRUE, Alice, AsDerivative(5))
ExBatchAll3 == Extrinsic(TRUE, Bob,
  Wrapped("utility", "batchAll", <<VecVal(<<Remark, AsDerivative(5), Remark>>)>>))
ExNested == Extrinsic(TRUE, Alice,
  Wrapped("utility", "batch",
    <<ArrayVal(<<Wrapped("utility", "batchAll", <<VecVal(<<AsDerivative(1)>>)>>),
                 AsDerivative(261)>>)>>))
ExBatchNull == Extrinsic(TRUE, Alice, Wrapped("utility", "batch", <<NullVal>>))
ExBatchAbsent == Extrinsic(TRUE, Bob, Wrapped("utility", "batchAll", <<>>))
ExBatchScalar == Extrinsic(TRUE, Bob, Wrapped("utility", "batch", <<ScalarVal>>))
ExBatchObject == Extrinsic(TRUE, Bob, Wrapped("utility", "batchAll", <<ObjectVal>>))
ExNoInner == Extrinsic(TRUE, Alice, Wrapped("utility", "asDerivative", <<IntVal(7)>>))
ExBadIndex == Extrinsic(TRUE, Alice,
  Wrapped("utility", "asDerivative", <<ScalarVal, CallVal(Remark)>>))
ExTransfer == Extrinsic(TRUE, Alice, Wrapped("balances", "transfer", <<IntVal(1)>>))
ExUnsigned == Extrinsic(FALSE, Alice, AsDerivative(5))
ExDerivativeOfBatch == Extrinsic(TRUE, Bob,
  Wrapped("utility", "asDerivative",
    <<IntVal(3), CallVal(Wrapped("utility", "batch", <<VecVal(<<AsDerivative(4)>>)>>))>>))
ExBareNested == Extrinsic(TRUE, Bob,
  Wrapped("utility", "batch",
    <<VecVal(<<Bare("utility", "asDerivative", <<IntVal(9), CallVal(Remark)>>)>>)>>))

BlockCatalog ==
  { <<>>,
    <<ExTransfer, ExDirect>>,
    <<ExBatchAll3, ExNested>>,
    <<ExDirect, ExBatchNull, ExDirect>>,
    <<ExNoInner, ExDirect>>,
    <<ExUnsigned, ExBatchScalar, ExDerivativeOfBatch>>,
    <<ExBareNested, ExBatchObject, ExBadIndex>>,
    <<ExBatchAbsent>> }

\* ------------------------------------------------------------------ state
VARIABLES
  pc,          \* where main is: "header", "debug", "hashes", "blocks", "done",
               \* "failed";
               \* "unit", "unitDone" when the matcher is driven alone
  chain,       \* the node's data: block number -> extrinsics
  batchIdx,    \* loop variable of the scan loop
  attempt,     \* loop variable i of the running retry
  inflight,    \* positions of the running Promise.all still pending
  got,         \* position -> value of the requests already fulfilled
  hashes,      \* result of the first retry of the batch
  err,         \* the variable err of the running retry
  timer,       \* delay of the pending setTimeout, 0 when none
  caught,      \* the error the catch of the scan loop (or of main) got last
  counters,    \* { total, unique }
  ws,          \* chunks written to the details stream
  firstDetail,
  summary,     \* the summary file
  probe,       \* the arguments of a function driven alone ("none" in a scan)
  answer,      \* what deriveAccountCorrect returned when driven alone
  debug        \* the pending request of debugBlock: block b, "hash" or "block"

vars == <<pc, chain, batchIdx, attempt, inflight, got, hashes, err, timer, caught,
          counters, ws, firstDetail, summary, probe, answer, debug>>

NoErr == [phase |-> "none", attempt |-> 0, pos |-> 0, batch |-> 0]
RpcError(phase, i, p, b) == [phase |-> phase, attempt |-> i, pos |-> p, batch |-> b]
TypeError(b) == [phase |-> "process", attempt |-> 0, pos |-> 0, batch |-> b]
NoResults == [p \in {} |-> 0]
NoSummary == [written |-> FALSE, scannedBlocks |-> 0, totalDerivatives |-> 0, uniqueAccounts |-> 0]

\* No debugBlock is running.
NoDebug == [b |-> 0, stage |-> "none"]
Machine == [total |-> counters.total, unique |-> counters.unique, ws |-> ws,
            firstDetail |-> firstDetail, thrown |-> FALSE]

Init ==
  /\ pc = "header"
  /\ chain \in [{AllBlocks[i] : i \in 1..Len(AllBlocks)} -> BlockCatalog]
  /\ batchIdx = 0
  /\ attempt = 0
  /\ inflight = {1}
  /\ got = NoResults
  /\ hashes = <<>>
  /\ err = NoErr
  /\ timer = 0
  /\ caught = NoErr
  /\ counters = [total |-> 0, unique |-> {}]
  /\ ws = <<>>
  /\ firstDetail = TRUE
  /\ summary = NoSummary
  /\ probe = "none"
  /\ answer = "none"
  /\ debug = NoDebug

\* The requests of the call fn(...args) of the running retry.
Positions ==
  IF pc = "header" THEN {1} ELSE 1..Len(Batches[batchIdx + 1])

\* Top of the scan loop for batch idx: the first retry issues its requests.
EnterBatch(idx) ==
  /\ pc' = "hashes"
  /\ batchIdx' = idx
  /\ attempt' = 0
  /\ inflight' = 1..Len(Batches[idx + 1])
  /\ got' = NoResults
  /\ hashes' = <<>>
  /\ err' = NoErr
  /\ timer' = 0

\* Lines 340-360, after the loop: the array is closed and the summary written.
FinishScan(m) ==
  /\ pc' = "done"
  /\ ws' = m.ws \o <<Tok("\n"), Tok("]")>>
  /\ summary' = [written |-> TRUE,
                 scannedBlocks |-> END_BLOCK - START_BLOCK + 1,
                 totalDerivatives |-> m.total,
                 uniqueAccounts |-> Cardinality(m.unique)]
  /\ attempt' = 0 /\ inflight' = {} /\ got' = NoResults /\ hashes' = <<>>
  /\ err' = NoErr /\ timer' = 0
  /\ UNCHANGED batchIdx

\* The scan loop going on after a batch that left the matcher state m:
\* batchIdx++ and either the next batch or the end of the scan.
LoopStopsOnError(m) ==
  /\ counters' = [total |-> m.total, unique |-> m.unique]
  /\ firstDetail' = m.firstDetail
  /\ IF batchIdx + 1 < Len(Batches) /\ caught' = NoErr
       THEN EnterBatch(batchIdx + 1) /\ ws' = m.ws /\ UNCHANGED summary
       ELSE FinishScan(m)
LoopBack(m) ==
  /\ counters' = [total |-> m.total, unique |-> m.unique]
  /\ firstDetail' = m.firstDetail
  /\ IF batchIdx + 1 < Len(Batches)
       THEN EnterBatch(batchIdx + 1) /\ ws' = m.ws /\ UNCHANGED summary
       ELSE FinishScan(m)

\* Promise.all keeps the array order of its inputs whatever the order the
\* requests settle in.
ResultsInArrivalOrder(g, p, v) == [q \in DOMAIN g \cup {Cardinality(DOMAIN g) + 1} |->
                                     IF q \in DOMAIN g THEN g[q] ELSE v]
Results(g, p, v) == [q \in DOMAIN g \cup {p} |-> IF q = p THEN v ELSE g[q]]

\* Lines 264-287: the stream is opened, '[' written, the counters made, and
\* the scan loop entered (or passed over when there is no batch).
OpenScan ==
  /\ firstDetail' = TRUE
  /\ counters' = [total |-> 0, unique |-> {}]
  /\ IF Len(Batches) > 0
       THEN EnterBatch(0) /\ ws' = <<Tok("[")>> /\ UNCHANGED summary
       ELSE FinishScan([Machine EXCEPT !.ws = <<Tok("[")>>])

\* Line 257: a range of ten blocks or fewer is debugged first; the loop of
\* line 259 runs when the range holds a block.
DebugRange == END_BLOCK - START_BLOCK < 10 /\ START_BLOCK <= END_BLOCK

\* retry(getHeader) returns: main goes on to debugBlock(startBlock), which
\* awaits getBlockHash, when the range is small, and to the scan otherwise.
HeaderFulfil ==
  /\ pc = "header" /\ timer = 0 /\ 1 \in inflight
  /\ IF DebugRange
       THEN /\ pc' = "debug"
            /\ debug' = [b |-> START_BLOCK, stage |-> "hash"]
            /\ attempt' = 0 /\ inflight' = {} /\ err' = NoErr
            /\ UNCHANGED <<batchIdx, got, hashes, timer, counters, ws, firstDetail, summary>>
       ELSE OpenScan /\ UNCHANGED debug
  /\ UNCHANGED <<chain, caught, probe, answer>>

\* debugBlock(b) returns to the loop of lines 259-261: the next block is
\* debugged, or the loop ends and the scan starts.
DebugReturn ==
  IF debug.b < END_BLOCK
    THEN /\ debug' = [b |-> debug.b + 1, stage |-> "hash"]
         /\ UNCHANGED <<pc, batchIdx, attempt, inflight, got, hashes, err, timer, counters,
                        ws, firstDetail, summary>>
    ELSE /\ debug' = NoDebug
         /\ OpenScan

\* Line 193: getBlockHash(blockNumber) of debugBlock is fulfilled; getBlock
\* is asked for.
DebugHashFulfil ==
  /\ pc = "debug" /\ debug.stage = "hash"
  /\ debug' = [debug EXCEPT !.stage = "block"]
  /\ UNCHANGED <<pc, chain, batchIdx, attempt, inflight, got, hashes, err, timer, caught,
                 counters, ws, firstDetail, summary, probe, answer>>

\* Lines 194-222: getBlock of debugBlock is fulfilled; the block is logged,
\* nothing of the scan is touched.
DebugBlockFulfil ==
  /\ pc = "debug" /\ debug.stage = "block"
  /\ DebugReturn
  /\ UNCHANGED <<chain, caught, probe, answer>>

\* Lines 224-226: a request of debugBlock rejects (or the logging throws);
\* the catch of debugBlock logs the error and debugBlock returns.
DebugReject ==
  /\ pc = "debug" /\ debug.stage \in {"hash", "block"}
  /\ DebugReturn
  /\ UNCHANGED <<chain, caught, probe, answer>>

\* api.rpc.chain.getBlockHash(batch[p]) is fulfilled.
HashFulfil(p) ==
  /\ pc = "hashes" /\ timer = 0 /\ p \in inflight
  /\ LET r == Results(got, p, [hashOf |-> Batches[batchIdx + 1][p]])
     IN  IF inflight = {p}
           THEN \* the first retry returns; the second issues its requests
                /\ hashes' = r
                /\ pc' = "blocks"
                /\ attempt' = 0
                /\ err' = NoErr
                /\ inflight' = DOMAIN r
                /\ got' = NoResults
           ELSE /\ got' = r
                /\ inflight' = inflight \ {p}
                /\ UNCHANGED <<hashes, pc, attempt, err>>
  /\ UNCHANGED <<debug, chain, probe, answer, batchIdx, timer, caught, counters, ws, firstDetail, summary>>

\* api.rpc.chain.getBlock(hashes[p]) is fulfilled; with the last one the
\* blocks of the batch are matched and the loop goes on.
BlockFulfil(p) ==
  /\ pc = "blocks" /\ timer = 0 /\ p \in inflight
  /\ LET r == Results(got, p, chain[hashes[p].hashOf])
     IN  IF inflight = {p}
           THEN LET m == ProcessBlocks(r, Batches[batchIdx + 1], 1, Machine)
                IN  /\ caught' = IF m.thrown THEN TypeError(batchIdx) ELSE caught
                    /\ LoopBack(m)
           ELSE /\ got' = r
                /\ inflight' = inflight \ {p}
                /\ UNCHANGED <<pc, batchIdx, attempt, hashes, err, timer, caught,
                               counters, ws, firstDetail, summary>>
  /\ UNCHANGED <<chain, probe, answer, debug>>

\* A request of the running call rejects: Promise.all rejects, the catch of
\* retry keeps the error and sleeps.
Reject(p) ==
  /\ pc \in {"header", "hashes", "blocks"} /\ timer = 0 /\ p \in inflight
  /\ err' = RpcError(pc, attempt + 1, p, batchIdx)
  /\ timer' = RetryDelay(attempt)
  /\ inflight' = {}
  /\ got' = NoResults
  /\ UNCHANGED <<debug, pc, chain, probe, answer, batchIdx, attempt, hashes, caught, counters, ws,
                 firstDetail, summary>>

\* The sleep of retry ends: i++, then the next attempt, or throw err.
TimerFire ==
  /\ timer > 0
  /\ IF ~RetryExhausted(attempt + 1)
       THEN /\ attempt' = attempt + 1
            /\ timer' = 0
            /\ inflight' = Positions
            /\ UNCHANGED <<pc, batchIdx, got, hashes, err, caught, counters, ws,
                           firstDetail, summary>>
       ELSE IF pc = "header"
         THEN \* main rejects before the scan starts
              /\ pc' = "failed"
              /\ caught' = err
              /\ timer' = 0
              /\ UNCHANGED <<batchIdx, attempt, inflight, got, hashes, err, counters,
                             ws, firstDetail, summary>>
         ELSE \* the catch of the scan loop
              /\ caught' = err
              /\ LoopBack(Machine)
  /\ UNCHANGED <<chain, probe, answer, debug>>

Next ==
  \/ HeaderFulfil
  \/ DebugHashFulfil
  \/ DebugBlockFulfil
  \/ DebugReject
  \/ \E p \in 1..BATCH_SIZE : HashFulfil(p)
  \/ \E p \in 1..BATCH_SIZE : BlockFulfil(p)
  \/ \E p \in 1..BATCH_SIZE : Reject(p)
  \/ TimerFire

Spec == Init /\ [][Next]_vars

\* Every request settles and every timer fires. The blocks of the chain
\* are those that decide how a batch ends: empty, matched to the end, and
\* one whose second extrinsic makes the matcher throw.
FairCatalog == { <<>>, <<ExTransfer, ExDirect>>, <<ExDirect, ExBatchNull, ExDirect>> }
FairInit == Init /\ \A b \in DOMAIN chain : chain[b] \in FairCatalog
FairSpec == FairInit /\ [][Next]_vars /\ WF_vars(Next)

\* ------------------------------------------------- the matcher driven alone
\* checkAsDerivative applied once to a call tree, as a test would: the tree,
\* the signer and the state of the counters and of the stream are inputs.
LeafCalls ==
  { AsDerivative(5),
    Wrapped("utility", "asDerivative", <<IntVal(7)>>),
    Remark,
    Wrapped("utility", "batch", <<NullVal>>),
    Wrapped("utility", "batch", <<ScalarVal>>),
    Bare("utility", "asDerivative", <<IntVal(9), CallVal(Remark)>>),
    NullNode,
    Wrapped("utility", "forceBatch", <<VecVal(<<AsDerivative(6)>>)>>),
    Wrapped("utility", "asDerivative",
      <<IntVal(3), CallVal(Wrapped("utility", "batch", <<VecVal(<<AsDerivative(4)>>)>>))>>),
    Wrapped("utility", "asDerivative", <<IntVal(2), CallVal(AsDerivative(8))>>),
    Wrapped("system", "asDerivative", <<IntVal(5), CallVal(Remark)>>) }

RECURSIVE NodesOfSize(_)
RECURSIVE ForestsOfSize(_)
\* The sequences of entries with n nodes in all.
ForestsOfSize(n) ==
  IF n = 0 THEN {<<>>}
  ELSE UNION { { <<t>> \o f : t \in NodesOfSize(k), f \in ForestsOfSize(n - k) } : k \in 1..n }
\* The entries with n nodes: a leaf, or a batch / batchAll around entries.
NodesOfSize(n) ==
  (IF n = 1 THEN LeafCalls ELSE {})
    \cup { Wrapped("utility", "batch", <<VecVal(f)>>) : f \in ForestsOfSize(n - 1) }
    \cup { Wrapped("utility", "batchAll", <<ArrayVal(f)>>) : f \in ForestsOfSize(n - 1) }

CallTrees == { t \in UNION { NodesOfSize(n) : n \in 1..MaxNodes } : t.tag = "wrapped" }

\* The record written by an earlier match of the same scan.
EarlierDetail ==
  [block |-> START_BLOCK, extrinsicIndex |-> 0, signer |-> Alice, derivativeIndex |-> 5,
   derivedAccount |-> DeriveAccountCorrect(Alice, 5),
   innerCall |-> MethodOf(Remark), innerCallArgs |-> <<ToHuman(IntVal(0))>>]

\* The states a scan can be in when the matcher is called: nothing matched
\* yet, or one record written.
Fresh == [total |-> 0, unique |-> {}, ws |-> <<Tok("[")>>, firstDetail |-> TRUE]
AfterOne == [total |-> 1, unique |-> {EarlierDetail.derivedAccount},
             ws |-> <<Tok("["), Tok("\n"), JsonTok(EarlierDetail)>>, firstDetail |-> FALSE]
MatcherCases ==
  { [signer |-> Alice, k |-> 0, before |-> Fresh],
    [signer |-> Alice, k |-> 1, before |-> AfterOne],
    [signer |-> Bob, k |-> 1, before |-> AfterOne] }

MatcherInit ==
  /\ pc = "unit"
  /\ chain = <<>>
  /\ batchIdx = 0 /\ attempt = 0 /\ inflight = {} /\ got = NoResults /\ hashes = <<>>
  /\ err = NoErr /\ timer = 0 /\ caught = NoErr /\ summary = NoSummary
  /\ answer = "none" /\ debug = NoDebug
  /\ \E t \in CallTrees, c \in MatcherCases :
       /\ probe = [call |-> t, blockNumber |-> START_BLOCK + c.k, extrinsicIndex |-> c.k,
                   signer |-> c.signer]
       /\ counters = [total |-> c.before.total, unique |-> c.before.unique]
       /\ ws = c.before.ws
       /\ firstDetail = c.before.firstDetail

ApplyCheckAsDerivative ==
  /\ pc = "unit"
  /\ LET m == CheckAsDerivative(MethodOf(probe.call), probe.call.args, probe.blockNumber,
                                probe.extrinsicIndex, probe.signer, Machine)
     IN  /\ counters' = [total |-> m.total, unique |-> m.unique]
         /\ ws' = m.ws
         /\ firstDetail' = m.firstDetail
         /\ caught' = IF m.thrown THEN TypeError(0) ELSE NoErr
  /\ pc' = "unitDone"
  /\ UNCHANGED <<debug, chain, batchIdx, attempt, inflight, got, hashes, err, timer, summary, probe,
                 answer>>

MatcherNext == ApplyCheckAsDerivative

MatcherSpec == MatcherInit /\ [][MatcherNext]_vars

\* ------------------------------------------- the deriver driven alone
IndexRange == (-(256 * MaxWrap))..(256 * MaxWrap + 255)

\* A parent, an index i, and an index j of the same residue or next to i.
DeriveInit ==
  /\ pc = "derive"
  /\ chain = <<>>
  /\ batchIdx = 0 /\ attempt = 0 /\ inflight = {} /\ got = NoResults /\ hashes = <<>>
  /\ err = NoErr /\ timer = 0 /\ caught = NoErr /\ summary = NoSummary
  /\ counters = [total |-> 0, unique |-> {}] /\ ws = <<>> /\ firstDetail = TRUE
  /\ answer = "none" /\ debug = NoDebug
  /\ \E parent \in Signers, i \in IndexRange :
       \E j \in ({i + 256 * k : k \in (-MaxWrap)..MaxWrap} \cup {i + 1}) \cap IndexRange :
         probe = [parent |-> parent, i |-> i, j |-> j]

ApplyDerive ==
  /\ pc = "derive"
  /\ answer' = [ofI |-> DeriveAccountCorrect(probe.parent, probe.i),
                ofJ |-> DeriveAccountCorrect(probe.parent, probe.j),
                inline |-> CheckAccountDerive(probe.parent, probe.i)]
  /\ pc' = "derived"
  /\ UNCHANGED <<debug, chain, batchIdx, attempt, inflight, got, hashes, err, timer, caught,
                 counters, ws, firstDetail, summary, probe>>

DeriveNext == ApplyDerive

DeriveSpec == DeriveInit /\ [][DeriveNext]_vars

\* ================================================================ claims
\* The records in the details stream, in the order written.
RECURSIVE Details(_)
Details(w) ==
  IF w = <<>> THEN <<>>
  ELSE (IF Head(w).ch = "json" THEN Head(w).json ELSE <<>>) \o Details(Tail(w))

\* The part of a record the claims speak of.
Core(d) == [block |-> d.block, extrinsicIndex |-> d.extrinsicIndex, signer |-> d.signer,
            derivativeIndex |-> d.derivativeIndex, derivedAccount |-> d.derivedAccount]

IsUtility(node, method) ==
  node.tag # "null" /\ node.section = "utility" /\ node.method = method
IsBatchNode(node) == IsUtility(node, "batch") \/ IsUtility(node, "batchAll")
IsSequenceArg(v) == v.kind \in {"vec", "array"}

\* An asDerivative call with the arguments of its signature: an index and a
\* call whose arguments are decoded values.
WellFormedDerivative(node) ==
  /\ Len(node.args) >= 2
  /\ node.args[1].kind = "int"
  /\ node.args[2].kind = "call"
  /\ node.args[2].items[1].tag # "null"
  /\ \A k \in 1..Len(node.args[2].items[1].args) :
       node.args[2].items[1].args[k].kind \in {"int", "vec", "call"}

\* The asDerivative calls reachable from a call through batch and batchAll
\* wrappers only, depth first, left to right.
RECURSIVE ReachableDerivatives(_)
RECURSIVE ReachableIn(_, _)
ReachableIn(entries, k) ==
  IF k > Len(entries) THEN <<>>
  ELSE ReachableDerivatives(entries[k]) \o ReachableIn(entries, k + 1)
ReachableDerivatives(node) ==
  IF IsUtility(node, "asDerivative") THEN <<node>>
  ELSE IF IsBatchNode(node) /\ Len(node.args) >= 1 /\ IsSequenceArg(node.args[1])
    THEN ReachableIn(node.args[1].items, 1)
  ELSE <<>>

\* Every call of a tree, whatever it is nested in.
RECURSIVE AllCalls(_)
RECURSIVE AllCallsIn(_, _)
RECURSIVE AllCallsOfArgs(_, _)
AllCallsIn(entries, k) ==
  IF k > Len(entries) THEN <<>> ELSE AllCalls(entries[k]) \o AllCallsIn(entries, k + 1)
AllCallsOfArgs(args, k) ==
  IF k > Len(args) THEN <<>>
  ELSE AllCallsIn(args[k].items, 1) \o AllCallsOfArgs(args, k + 1)
AllCalls(node) == <<node>> \o AllCallsOfArgs(node.args, 1)

NoDerivativeAnywhere(node) ==
  \A k \in 1..Len(AllCalls(node)) : ~IsUtility(AllCalls(node)[k], "asDerivative")

\* The records checkAsDerivative wrote in the step.
Emitted(before, after) == SubSeq(Details(after), Len(Details(before)) + 1, Len(Details(after)))

ExpectedCore(node, p) ==
  [block |-> p.blockNumber, extrinsicIndex |-> p.extrinsicIndex, signer |-> p.signer,
   derivativeIndex |-> node.args[1].num,
   derivedAccount |-> DeriveAccountCorrect(p.signer, node.args[1].num)]

\* C1: applied to a utility.asDerivative call (an index and a call as its
\* arguments), checkAsDerivative adds exactly 1 to counters.total, adds the
\* derived account to counters.unique and hands writeDetail exactly one
\* record, with the block, extrinsic index and signer given, the index of
\* arguments[0] and the account deriveAccountCorrect gives for them.
C1_DirectMatch ==
  [][ (pc = "unit" /\ IsUtility(probe.call, "asDerivative")
         /\ WellFormedDerivative(probe.call))
      => /\ counters'.total = counters.total + 1
         /\ counters'.unique = counters.unique \cup {ExpectedCore(probe.call, probe).derivedAccount}
         /\ Len(Emitted(ws, ws')) = 1
         /\ Core(Emitted(ws, ws')[1]) = ExpectedCore(probe.call, probe)
         /\ Details(ws') = Details(ws) \o Emitted(ws, ws') ]_vars

\* C1 witness: a direct asDerivative matched after an earlier record.
C1_Witness ==
  /\ pc = "unitDone"
  /\ IsUtility(probe.call, "asDerivative") /\ WellFormedDerivative(probe.call)
  /\ counters.total = 2
  /\ Len(Details(ws)) = 2
  /\ Details(ws)[2].derivativeIndex = 5

\* C2 (as claimed): for every tree of batch / batchAll wrappers, the records
\* written are exactly those of the asDerivative calls reachable through the
\* wrappers, in order, each with the block, extrinsic index and signer of
\* the extrinsic, whatever the sibling sub-calls are.
C2_EveryNestedDerivativeFound ==
  [][ (pc = "unit" /\ IsBatchNode(probe.call)
         /\ \A k \in 1..Len(ReachableDerivatives(probe.call)) :
              WellFormedDerivative(ReachableDerivatives(probe.call)[k]))
      => /\ Len(Emitted(ws, ws')) = Len(ReachableDerivatives(probe.call))
         /\ \A k \in 1..Len(Emitted(ws, ws')) :
              Core(Emitted(ws, ws')[k])
                = ExpectedCore(ReachableDerivatives(probe.call)[k], probe) ]_vars

\* C3 (as claimed): a batch or batchAll whose first argument is no sequence
\* makes checkAsDerivative return without throwing, writing nothing and
\* leaving the counters alone.
C3_MalformedBatchSkipped ==
  [][ (pc = "unit" /\ IsBatchNode(probe.call) /\ ~IsSequenceArg(ArgAt(probe.call.args, 0)))
      => (caught' = NoErr /\ counters' = counters /\ ws' = ws) ]_vars

\* C4: a call tree without any utility.asDerivative call at any depth makes
\* checkAsDerivative write no record and leave counters.total and
\* counters.unique as they were.
C4_NoFalsePositive ==
  [][ (pc = "unit" /\ NoDerivativeAnywhere(probe.call))
      => (counters' = counters /\ ws' = ws) ]_vars

\* C4 witness: a batch holding a batch, no asDerivative in it, was walked
\* after an earlier record.
C4_Witness ==
  /\ pc = "unitDone"
  /\ NoDerivativeAnywhere(probe.call)
  /\ IsBatchNode(probe.call)
  /\ Len(probe.call.args[1].items) >= 1
  /\ IsBatchNode(probe.call.args[1].items[1])
  /\ counters.total = 1

\* C6: the derived account depends on the index through its residue modulo
\* 256 only: indices of equal residue give the same account, which is the
\* digest of 'modlpy/utilisuba', the parent's bytes and the one byte
\* index mod 256; the inline derivation of findAsDerivative.js agrees.
C6_LowEightBits ==
  pc = "derived" =>
    /\ (probe.i % 256 = probe.j % 256 => answer.ofI = answer.ofJ)
    /\ answer.ofI = SS58(Blake2AsU8a(
         <<109, 111, 100, 108, 112, 121, 47, 117, 116, 105, 108, 105, 115, 117, 98, 97>>
           \o probe.parent.ss58 \o <<probe.i % 256>>))
    /\ answer.inline = answer.ofI

\* C6 witness: indices 5 and 261 gave the same account, 5 and 6 did not.
C6_Witness ==
  /\ pc = "derived"
  /\ probe.i = 261 /\ probe.j = 5
  /\ answer.ofI = answer.ofJ
  /\ answer.ofI # DeriveAccountCorrect(probe.parent, 6)

\* ------------------------------------------------------ claims on the scan
\* s is the sequence t with some elements left out, order kept.
RECURSIVE IsSubsequence(_, _)
IsSubsequence(s, t) ==
  IF s = <<>> THEN TRUE
  ELSE IF t = <<>> THEN FALSE
  ELSE IF Head(s) = Head(t) THEN IsSubsequence(Tail(s), Tail(t))
  ELSE IsSubsequence(s, Tail(t))

RECURSIVE SelectOf(_, _, _)
\* The records of block b and extrinsic index x.
SelectOf(d, b, x) ==
  IF d = <<>> THEN <<>>
  ELSE (IF Head(d).block = b /\ Head(d).extrinsicIndex = x THEN <<Core(Head(d))>> ELSE <<>>)
         \o SelectOf(Tail(d), b, x)

\* What the asDerivative calls of extrinsic x of block b would be recorded
\* as, in the array order of the nesting.
ExpectedOf(b, x) ==
  LET ex == chain[b][x + 1]
      r == ReachableDerivatives(ex.call)
  IN  [k \in 1..Len(r) |->
         [block |-> b, extrinsicIndex |-> x, signer |-> ex.signer,
          derivativeIndex |-> r[k].args[1].num,
          derivedAccount |-> DeriveAccountCorrect(ex.signer, r[k].args[1].num)]]

ScanStarted == pc \in {"hashes", "blocks", "done"}

\* C5: the records of the stream are in ascending block number, within a
\* block in ascending extrinsic index, within an extrinsic in the array
\* order of the nested calls; each belongs to an asDerivative of the block
\* it names, so that a block without a match has no record, whatever the
\* order the parallel requests settled in.
C5_EmissionOrder ==
  ScanStarted =>
    LET d == Details(ws)
    IN  /\ \A k \in 1..(Len(d) - 1) :
             \/ d[k].block < d[k + 1].block
             \/ d[k].block = d[k + 1].block /\ d[k].extrinsicIndex <= d[k + 1].extrinsicIndex
        /\ \A k \in 1..Len(d) :
             /\ d[k].block \in DOMAIN chain
             /\ d[k].extrinsicIndex + 1 \in 1..Len(chain[d[k].block])
             /\ IsSubsequence(SelectOf(d, d[k].block, d[k].extrinsicIndex),
                              ExpectedOf(d[k].block, d[k].extrinsicIndex))

\* C5 witness: the scan of 100.. ended with the only records those of a
\* later block, three of them from two extrinsics, the earlier blocks
\* matched without a record.
C5_Witness ==
  /\ pc = "done"
  /\ caught = NoErr
  /\ Len(Details(ws)) = 3
  /\ \A k \in 1..3 : Details(ws)[k].block = START_BLOCK + 1
  /\ Details(ws)[1].extrinsicIndex = 0
  /\ Details(ws)[2].extrinsicIndex = 1 /\ Details(ws)[2].derivativeIndex = 1
  /\ Details(ws)[3].extrinsicIndex = 1 /\ Details(ws)[3].derivativeIndex = 261

\* C7: retry calls fn at most RPC_RETRY_LIMIT times, one call after the
\* other; the first call that succeeds ends it; after the failure of call k
\* it sleeps RPC_RETRY_DELAY * k; when call RPC_RETRY_LIMIT has failed too
\* it throws that last error.
C7_Retry ==
  [][ /\ attempt' < RPC_RETRY_LIMIT
      /\ (timer = 0 /\ timer' > 0)
           => /\ timer' = RPC_RETRY_DELAY * (attempt + 1)
              /\ err'.attempt = attempt + 1
              /\ attempt' = attempt /\ inflight' = {}
      /\ (timer > 0 /\ timer' = 0 /\ attempt + 1 < RPC_RETRY_LIMIT)
           => /\ attempt' = attempt + 1 /\ inflight' # {}
              /\ pc' = pc /\ batchIdx' = batchIdx /\ caught' = caught
      /\ (timer > 0 /\ timer' = 0 /\ attempt + 1 >= RPC_RETRY_LIMIT)
           => /\ caught' = err /\ err.attempt = RPC_RETRY_LIMIT
              /\ attempt + 1 = RPC_RETRY_LIMIT
              /\ pc' \in {"failed", "done"} \/ batchIdx' = batchIdx + 1
      /\ (timer = 0 /\ timer' = 0 /\ Cardinality(inflight) = 1 /\ inflight' # inflight)
           => /\ attempt' = 0
              /\ pc' # pc \/ batchIdx' # batchIdx ]_vars

\* C7 witness: three calls failed and the third error was thrown to the
\* scan loop, and a later retry returned.
C7_Witness ==
  /\ pc = "done"
  /\ caught.phase = "hashes" /\ caught.attempt = RPC_RETRY_LIMIT /\ caught.batch = 0
  /\ Len(Details(ws)) > 0

\* The tokens of the stream that are no white space.
RECURSIVE NoSpace(_)
NoSpace(w) ==
  IF w = <<>> THEN <<>>
  ELSE (IF Head(w).ch = "\n" THEN <<>> ELSE <<Head(w)>>) \o NoSpace(Tail(w))

\* '[' value (',' value)* ']' or '[' ']'.
WellFormedArray(w) ==
  LET t == NoSpace(w)
      n == Len(Details(w))
  IN  /\ Len(t) >= 2
      /\ t[1].ch = "[" /\ t[Len(t)].ch = "]"
      /\ Len(t) = IF n = 0 THEN 2 ELSE 2 * n + 1
      /\ \A k \in 2..(Len(t) - 1) : t[k].ch = IF k % 2 = 0 THEN "json" ELSE ","

\* C8: when the scan has finished the text of the details stream is a JSON
\* array: '[', the records with a comma before each but the first, ']'.
C8_DetailsIsJsonArray ==
  pc = "done" => WellFormedArray(ws)

\* C8 witness: the scan finished with two records or more after a batch
\* failed.
C8_Witness ==
  /\ pc = "done"
  /\ Len(Details(ws)) >= 2
  /\ caught # NoErr

IsPrefix(s, t) == Len(s) <= Len(t) /\ SubSeq(t, 1, Len(s)) = s

\* C9: an error of a batch ends that batch only: the loop goes to the next
\* batch, one by one up to the last, what the stream held stays, and the
\* scan, once started, reaches its end with ']' and the summary written.
C9_ErrorEndsOneBatch ==
  /\ [][ (pc \in {"hashes", "blocks"})
         => /\ IsPrefix(ws, ws')
            /\ \/ batchIdx' = batchIdx /\ pc' \in {"hashes", "blocks"}
               \/ batchIdx' = batchIdx + 1 /\ pc' = "hashes" /\ inflight' # {}
               \/ /\ pc' = "done" /\ batchIdx + 1 = Len(Batches)
                  /\ summary'.written /\ ws'[Len(ws')].ch = "]" ]_vars
  /\ (pc \in {"hashes", "blocks"}) ~> (pc = "done")

\* C9 witness: batch 0 threw while its blocks were matched, after a record
\* of block 100; the next batch was matched and the scan ended.
C9_Witness ==
  /\ pc = "done"
  /\ caught = TypeError(0)
  /\ summary.written
  /\ \E k \in 1..Len(Details(ws)) : Details(ws)[k].block = START_BLOCK
  /\ \E k \in 1..Len(Details(ws)) : Details(ws)[k].block = START_BLOCK + BATCH_SIZE

\* C10 (as claimed): counters.total is the number of records handed to
\* writeDetail so far, and the summary's totalDerivatives the number of
\* elements of the details array.
C10_TotalCountsRecords ==
  /\ ScanStarted => counters.total = Len(Details(ws))
  /\ summary.written => summary.totalDerivatives = Len(Details(ws))

\* ------------------------------------------------ claims on the traversal
\* The calls nested in the inner call of an asDerivative call.
InnerCalls(node) == AllCalls(node.args[2].items[1])
HasInnerDerivative(node) ==
  \E k \in 1..Len(InnerCalls(node)) : IsUtility(InnerCalls(node)[k], "asDerivative")

RECURSIVE ExpectedCores(_, _, _)
\* What the asDerivative calls r[k..] would be recorded as.
ExpectedCores(r, k, p) ==
  IF k > Len(r) THEN <<>> ELSE <<ExpectedCore(r[k], p)>> \o ExpectedCores(r, k + 1, p)

RECURSIVE CoresOf(_)
CoresOf(d) == IF d = <<>> THEN <<>> ELSE <<Core(Head(d))>> \o CoresOf(Tail(d))

\* C11: a matched asDerivative call is a leaf of the traversal. Applied to a
\* utility.asDerivative call (an index and a call as its arguments) whose
\* inner call is, or holds at some depth, another utility.asDerivative,
\* checkAsDerivative writes exactly one record, that of the outer call, and
\* counts one match; and in any tree the records written are records of
\* asDerivative calls reached through batch and batchAll wrappers only,
\* never of one inside an inner call.
C11_MatchIsLeaf ==
  [][ /\ (pc = "unit" /\ IsUtility(probe.call, "asDerivative")
            /\ WellFormedDerivative(probe.call) /\ HasInnerDerivative(probe.call))
         => /\ Len(Emitted(ws, ws')) = 1
            /\ Core(Emitted(ws, ws')[1]) = ExpectedCore(probe.call, probe)
            /\ counters'.total = counters.total + 1
            /\ counters'.unique
                 = counters.unique \cup {ExpectedCore(probe.call, probe).derivedAccount}
            /\ caught' = NoErr
      /\ pc = "unit"
         => IsSubsequence(CoresOf(Emitted(ws, ws')),
                          ExpectedCores(ReachableDerivatives(probe.call), 1, probe)) ]_vars

\* C11 witness: an asDerivative of index 2 whose inner call is an
\* asDerivative of index 8 was matched and one record, of index 2, written.
C11_Witness ==
  /\ pc = "unitDone"
  /\ IsUtility(probe.call, "asDerivative") /\ WellFormedDerivative(probe.call)
  /\ IsUtility(probe.call.args[2].items[1], "asDerivative")
  /\ probe.call.args[2].items[1].args[1].num = 8
  /\ counters.total = 1
  /\ Len(Details(ws)) = 1
  /\ Details(ws)[1].derivativeIndex = 2

\* C11 witness of the batch case: a batch holding an asDerivative of index
\* 3, whose inner call is a batch holding an asDerivative of index 4, was
\* walked and one record, of index 3, written.
C11_WitnessInnerBatch ==
  /\ pc = "unitDone"
  /\ IsBatchNode(probe.call)
  /\ Len(ReachableDerivatives(probe.call)) = 1
  /\ WellFormedDerivative(ReachableDerivatives(probe.call)[1])
  /\ IsBatchNode(ReachableDerivatives(probe.call)[1].args[2].items[1])
  /\ HasInnerDerivative(ReachableDerivatives(probe.call)[1])
  /\ counters.total = 1
  /\ Len(Details(ws)) = 1
  /\ Details(ws)[1].derivativeIndex = 3

====
